---------------------------- MODULE Spec2Model ----------------------------
(***************************************************************************)
(* SimpleFS (src/src/library/fs.c over the disk emulator of                *)
(* src/unnamed/part_001) as a state machine.                               *)
(*                                                                         *)
(* Storage unit.  The disk image is an array of blocks; a block is an      *)
(* array of BLOCK_SIZE cells.  One cell stands for one 32-bit word of the  *)
(* C unions (a superblock field, an inode field, a pointer) and lengths,   *)
(* offsets and sizes are counted in cells.  The same cells are read        *)
(* through every view of the C union Block: Super, Inode array, pointer    *)
(* array, raw data.                                                        *)
(*                                                                         *)
(* Scaling.  The program's layout constants are kept in their relations    *)
(* (INODE_SIZE = 3 + POINTERS_PER_INODE words, BLOCK_SIZE = INODES_PER_    *)
(* BLOCK * INODE_SIZE, POINTERS_PER_BLOCK = one pointer per word) and      *)
(* scaled down from 128 inodes per block, 5 direct pointers and 2^32.      *)
(*                                                                         *)
(* Uninitialised memory.  malloc'ed and stack buffers the code reads       *)
(* before writing are a nondeterministic choice: a block-sized buffer      *)
(* holds any image of HeapBlocks (zeroes, or what an earlier freed         *)
(* buffer of that size held: a caller's payload), a bitmap byte any        *)
(* boolean.  A store through an out-of-range index (heap corruption) is    *)
(* outside the state of this model and is dropped.                         *)
(***************************************************************************)
EXTENDS Integers, Sequences, FiniteSets, TLC

(***************************************************************************)
(* Bounds of the model                                                     *)
(***************************************************************************)
\* disk->blocks of the larger of the two disks the model opens
DISK_BLOCKS == 6
\* scaled INODES_PER_BLOCK (128 in the program)
INODES_PER_BLOCK == 2
\* scaled POINTERS_PER_INODE (5 in the program)
POINTERS_PER_INODE == 1
\* scaled 2^32: uint32_t values are taken modulo U32_MOD
U32_MOD == 128
\* the words a stale heap buffer may be filled with: 0..MaxByte
MaxByte == 2
\* state-changing calls explored in one run of the program
MaxCalls == 5
\* entries of a fresh bitmap that malloc hands over already nonzero
MaxStray == 1
\* state-changing calls explored in one run of the zeroed-memory build
MaxZeroedCalls == 7
\* state-changing calls explored in one run of repeated whole-block writes
MaxGrowCalls == 16
\* disk->blocks of the disk on which one indirect block is filled: room for
\* the inode table, an indirect block and POINTERS_PER_BLOCK + 1 data blocks
FILL_DISK_BLOCKS == 13
\* state-changing calls explored in one run that fills an indirect block
MaxFillCalls == 12
\* calls of a run in the zeroed-memory build that passes inode numbers past the table
MaxPastCalls == 5
\* blocks of the second Disk: 1..MaxProbeBlocks
MaxProbeBlocks == 2
\* successful reads, and successful writes, of the second Disk
MaxDiskCalls == 2

(***************************************************************************)
(* Layout                                                                  *)
(***************************************************************************)
\* sizeof(Inode) in words: valid, size, direct[POINTERS_PER_INODE], indirect
INODE_SIZE == 3 + POINTERS_PER_INODE
BLOCK_SIZE == INODES_PER_BLOCK * INODE_SIZE
POINTERS_PER_BLOCK == BLOCK_SIZE
\* the sentinel of a SimpleFS superblock (any fixed nonzero word)
MAGIC_NUMBER == 99

Cells == 0 .. (BLOCK_SIZE - 1)
ZeroBlock == [c \in Cells |-> 0]
\* the caller's buffer: BLOCK_SIZE words of memory starting at `data`
Payload(v) == [c \in Cells |-> v]
Payloads == {Payload(v) : v \in 1 .. MaxByte}
\* the BLOCK_SIZE words of the caller's memory that start at a buffer of
\* `length` words v: the buffer, then whatever follows it
CallerMemory(v, length, tail) == [c \in Cells |-> IF c < length THEN v ELSE tail]
\* what an uninitialised BLOCK_SIZE buffer may hold
HeapBlocks == {ZeroBlock} \cup Payloads

Min(a, b) == IF a < b THEN a ELSE b
\* ceil(blocks / 10.0)
CeilDiv10(blocks) == (blocks + 9) \div 10

\* the Super view of a block
SuperOf(blk) ==
  [magic_number |-> blk[0], blocks |-> blk[1],
   inode_blocks |-> blk[2], inodes |-> blk[3]]

\* the Inode view of a block: slot j
InodeAt(blk, j) ==
  [valid    |-> blk[j * INODE_SIZE],
   size     |-> blk[j * INODE_SIZE + 1],
   direct   |-> [k \in 0 .. (POINTERS_PER_INODE - 1) |-> blk[j * INODE_SIZE + 2 + k]],
   indirect |-> blk[j * INODE_SIZE + 2 + POINTERS_PER_INODE]]

\* block.inodes[j] = inode
PutInode(blk, j, inode) ==
  [c \in Cells |->
     IF c = j * INODE_SIZE THEN inode.valid
     ELSE IF c = j * INODE_SIZE + 1 THEN inode.size
     ELSE IF c >= j * INODE_SIZE + 2 /\ c < j * INODE_SIZE + 2 + POINTERS_PER_INODE
       THEN inode.direct[c - (j * INODE_SIZE + 2)]
     ELSE IF c = j * INODE_SIZE + 2 + POINTERS_PER_INODE THEN inode.indirect
     ELSE blk[c]]

is_valid_Inode(inode) == inode.valid = 1

(***************************************************************************)
(* State                                                                   *)
(***************************************************************************)
VARIABLES
  disk_blocks,   \* disk->blocks
  disk,          \* the backing file: block index -> block image
  fs_disk,       \* fs->disk: "NULL" or "disk"
  meta_data,     \* fs->meta_data
  free_blocks,   \* fs->free_blocks: NullMap, or block index -> BOOLEAN
  last,          \* the last call: its name, arguments and result
  calls,         \* state-changing calls made so far
  probe,         \* a second Disk the client reads and writes directly
  lost           \* heap allocations no pointer to which is left: never freed

vars == <<disk_blocks, disk, fs_disk, meta_data, free_blocks, last, calls, probe,
          lost>>

NullMap == << >>
NoMeta == [magic_number |-> 0, blocks |-> 0, inode_blocks |-> 0, inodes |-> 0]
\* a caller's buffer no byte of which was stored to
NoOut == [c \in Cells |-> -1]

Call(op, n, off, len, val, ret, out) ==
  [op |-> op, n |-> n, off |-> off, len |-> len, val |-> val, ret |-> ret, out |-> out]

(***************************************************************************)
(* Disk emulator                                                           *)
(***************************************************************************)
\* disk_sanity_check for an open disk and a non-null buffer
disk_sanity_check(block) == block < disk_blocks

\* disk_read: the buffer after the call; `stale` is what it held before
disk_read(d, block, stale) ==
  IF disk_sanity_check(block) THEN d[block] ELSE stale

\* disk_write: the image after the call
disk_write(d, block, data) ==
  IF disk_sanity_check(block) THEN [d EXCEPT ![block] = data] ELSE d



(***************************************************************************)
(* Inputs.  A record I names the inputs a specification draws from:        *)
(*   past   0 or 1: inode numbers run over 0 .. inodes - 1 + past          *)
(*   vals   the payload words callers write                                *)
(*   lens   the lengths callers pass                                       *)
(*   tails  the words that follow a buffer shorter than a block in the     *)
(*          caller's memory                                                *)
(*   idxs   the block indices k of the offsets k * BLOCK_SIZE they pass    *)
(*   heap   what an uninitialised BLOCK_SIZE buffer may hold               *)
(*   stray  how many entries of a fresh bitmap may be nonzero before the   *)
(*          code stores to them                                            *)
(*   calls  how many state-changing calls a run makes; fs_stat and fs_read *)
(*          are not counted and are made before the last of them           *)
(***************************************************************************)
\* the first direct block, the first indirect one, the first index past the
\* maximum file size, and one whose 32-bit truncation is 0
BlockIndices ==
  {0, POINTERS_PER_INODE, POINTERS_PER_INODE + POINTERS_PER_BLOCK, U32_MOD}

Wide ==
  [past |-> 1, vals |-> {1}, lens |-> {1, BLOCK_SIZE}, tails |-> {0, 1},
   idxs |-> BlockIndices,
   heap |-> HeapBlocks, stray |-> MaxStray, calls |-> MaxCalls]

InodeArgs(I) == 0 .. (meta_data.inodes - 1 + I.past)
Offsets(I) == {k * BLOCK_SIZE : k \in I.idxs}

\* what the buffer of a disk_read held before the call: it shows only when
\* one of the reads of `blocks` fails its sanity check
Stale(I, blocks) ==
  IF \A b \in blocks : disk_sanity_check(b) THEN {ZeroBlock} ELSE I.heap

InodeBlockOf(n) == n \div INODES_PER_BLOCK + 1
SlotOf(n) == n % INODES_PER_BLOCK

\* fs_stat and fs_read change nothing but the caller's view, so the calls that
\* follow one of them are explored from the state it was made in
Query == {"fs_stat", "fs_read"}
Ready(I) == last.op \notin Query /\ calls < I.calls
Mounted == fs_disk = "disk"
Frame == UNCHANGED <<lost, probe, disk_blocks, disk, fs_disk, meta_data, free_blocks>>
\* a call on the second Disk leaves the FileSystem and its disk alone
Frame0 == UNCHANGED <<lost, disk_blocks, disk, fs_disk, meta_data, free_blocks>>

(***************************************************************************)
(* Free-block bitmap                                                       *)
(***************************************************************************)
InodeBlocks(meta) == 1 .. meta.inode_blocks
Slots == 0 .. (INODES_PER_BLOCK - 1)
Directs == 0 .. (POINTERS_PER_INODE - 1)

\* free_block_of_inode: the entries it sets for one valid inode.  A zero
\* direct slot leaves dir_p[i] unset and an unreadable indirect block leaves
\* the pointer array unset: what they then mark is among the stray entries.
free_block_of_inode(d, inode, bn) ==
  ({inode.direct[k] : k \in Directs} \cap (1 .. (bn - 1)))
  \cup (IF inode.indirect # 0
          THEN ({inode.indirect}
                \cup (IF disk_sanity_check(inode.indirect)
                        THEN {d[inode.indirect][c] : c \in Cells}
                        ELSE {}))
               \cap (1 .. (bn - 1))
          ELSE {})

\* busy_block_of_disk: the entries set while reading inode blocks 1..upto
busy_block_of_disk(d, meta, upto) ==
  {0} \cup UNION {free_block_of_inode(d, InodeAt(d[p[1]], p[2]), meta.blocks) :
                    p \in {q \in (1 .. upto) \X Slots :
                             is_valid_Inode(InodeAt(d[q[1]], q[2]))}}

\* the first inode block busy_block_of_disk cannot read, 0 when it reads all
FirstUnreadable(meta) ==
  IF \E i \in InodeBlocks(meta) : ~disk_sanity_check(i)
    THEN CHOOSE i \in InodeBlocks(meta) :
           ~disk_sanity_check(i) /\ \A h \in 1 .. (i - 1) : disk_sanity_check(h)
    ELSE 0

\* the entries init_bit_map sets to 1
BusyBlocks(d, meta) ==
  IF FirstUnreadable(meta) = 0
    THEN busy_block_of_disk(d, meta, meta.inode_blocks)
         \cup (InodeBlocks(meta) \cap (0 .. (meta.blocks - 1)))
    ELSE busy_block_of_disk(d, meta, FirstUnreadable(meta) - 1)

\* malloc(bn * sizeof(bool)): the entries that are nonzero as handed over
MallocBitmap(I, bn) == {s \in SUBSET (0 .. (bn - 1)) : Cardinality(s) <= I.stray}

\* init_bit_map: the bitmaps it can leave in fs->free_blocks
init_bit_map(I, d, meta) ==
  LET busy == BusyBlocks(d, meta) IN
    {[b \in 0 .. (meta.blocks - 1) |-> b \in busy \/ b \in stray] :
       stray \in MallocBitmap(I, meta.blocks)}

\* fs->free_blocks = malloc(...) with no free of what fs->free_blocks held:
\* the number of allocations the assignment leaves without a pointer to them
ReplacedBitmap(fb) == IF fb # NullMap THEN 1 ELSE 0

\* init_bit_map's return value
init_bit_map_ok(meta) == FirstUnreadable(meta) = 0

\* assign_block: the index handed out, -1 when every entry is set
assign_block(fb) ==
  IF \E i \in DOMAIN fb : ~fb[i]
    THEN CHOOSE i \in DOMAIN fb : ~fb[i] /\ \A h \in DOMAIN fb : h < i => fb[h]
    ELSE -1

\* free_blocks[i] = v, an out-of-range store dropped
SetBit(fb, i, v) == IF i \in DOMAIN fb THEN [fb EXCEPT ![i] = v] ELSE fb

\* unassign_block
unassign_block(fb, bid) == SetBit(fb, bid, FALSE)

(***************************************************************************)
(* format, mount, unmount                                                  *)
(***************************************************************************)
\* the superblock fs_format builds in its stack Block `stack`
FormatSuper(stack) ==
  [c \in Cells |->
     IF c = 0 THEN MAGIC_NUMBER
     ELSE IF c = 1 THEN disk_blocks % U32_MOD
     ELSE IF c = 2 THEN CeilDiv10(disk_blocks) % U32_MOD
     ELSE IF c = 3
       THEN (((CeilDiv10(disk_blocks) % U32_MOD) * BLOCK_SIZE) % U32_MOD) \div INODE_SIZE
     ELSE stack[c]]

\* the disk after fs_format; empty_block_data is malloc(BLOCK_SIZE), never set
FormatDisk(stack, empty_block_data) ==
  [b \in 0 .. (disk_blocks - 1) |->
     IF b = 0 THEN FormatSuper(stack) ELSE empty_block_data]

\* a format that does not look at the mount state
fs_format_unguarded(I) ==
  /\ Ready(I)
  /\ calls' = calls + 1
  /\ \E stack \in I.heap, empty_block_data \in I.heap :
       disk' = FormatDisk(stack, empty_block_data)
  /\ last' = Call("fs_format", 0, 0, 0, 0, 1, NoOut)
  /\ UNCHANGED <<lost, probe, disk_blocks, fs_disk, meta_data, free_blocks>>

fs_format(I) ==
  /\ Ready(I)
  /\ calls' = calls + 1
  /\ \/ /\ Mounted
        /\ last' = Call("fs_format", 0, 0, 0, 0, 0, NoOut)
        /\ Frame
     \/ /\ ~Mounted
        /\ \E stack \in I.heap, empty_block_data \in I.heap :
             disk' = FormatDisk(stack, empty_block_data)
        /\ last' = Call("fs_format", 0, 0, 0, 0, 1, NoOut)
        /\ UNCHANGED <<lost, probe, disk_blocks, fs_disk, meta_data, free_blocks>>

\* the superblock checks of fs_mount
SuperOk(super) ==
  /\ super.magic_number = MAGIC_NUMBER
  /\ super.blocks = disk_blocks
  /\ super.inode_blocks = CeilDiv10(disk_blocks)
  /\ super.inodes = (super.inode_blocks * INODES_PER_BLOCK) % U32_MOD

fs_mount(I) ==
  /\ Ready(I)
  /\ calls' = calls + 1
  /\ \/ /\ Mounted \/ ~SuperOk(SuperOf(disk[0]))
        /\ last' = Call("fs_mount", 0, 0, 0, 0, 0, NoOut)
        /\ Frame
     \/ /\ ~Mounted
        /\ SuperOk(SuperOf(disk[0]))
        /\ meta_data' = SuperOf(disk[0])
        /\ free_blocks' \in init_bit_map(I, disk, SuperOf(disk[0]))
        /\ fs_disk' = IF init_bit_map_ok(SuperOf(disk[0])) THEN "disk" ELSE "NULL"
        /\ last' = Call("fs_mount", 0, 0, 0, 0,
                        IF init_bit_map_ok(SuperOf(disk[0])) THEN 1 ELSE 0, NoOut)
        /\ lost' = lost + ReplacedBitmap(free_blocks)
        /\ UNCHANGED <<probe, disk_blocks, disk>>

fs_unmount(I) ==
  /\ Ready(I)
  /\ Mounted
  /\ calls' = calls + 1
  /\ free_blocks' = NullMap
  /\ fs_disk' = "NULL"
  /\ last' = Call("fs_unmount", 0, 0, 0, 0, 0, NoOut)
  /\ UNCHANGED <<lost, probe, disk_blocks, disk, meta_data>>

(***************************************************************************)
(* create, remove, stat                                                    *)
(***************************************************************************)
\* the inode fs_create stores in the slot it reserves
FreshInode ==
  [valid |-> 1, size |-> 0, direct |-> [k \in Directs |-> 0], indirect |-> 0]

\* the inode numbers fs_create scans.  A mounted volume passed init_bit_map,
\* so each of its inode blocks is read.
ScannedInodes(meta) == 0 .. (meta.inode_blocks * INODES_PER_BLOCK - 1)

\* a scan that keeps the last free slot it meets instead of stopping at the first
LastFreeInode(d, meta) ==
  LET free == {n \in ScannedInodes(meta) :
                 ~is_valid_Inode(InodeAt(d[InodeBlockOf(n)], SlotOf(n)))}
  IN IF free = {} THEN -1 ELSE CHOOSE n \in free : \A m \in free : n >= m

\* the first inode number, in scan order, whose inode is not valid; -1 if none
FirstFreeInode(d, meta) ==
  LET free == {n \in ScannedInodes(meta) :
                 ~is_valid_Inode(InodeAt(d[InodeBlockOf(n)], SlotOf(n)))}
  IN IF free = {} THEN -1 ELSE CHOOSE n \in free : \A m \in free : n <= m

\* a reservation that sets the valid flag and leaves size and pointers alone
CreateDiskValidOnly(d, n) ==
  LET blk == d[InodeBlockOf(n)] IN
    disk_write(d, InodeBlockOf(n),
               PutInode(blk, SlotOf(n), [InodeAt(blk, SlotOf(n)) EXCEPT !.valid = 1]))

\* the disk after fs_create reserved inode n
CreateDisk(d, n) ==
  disk_write(d, InodeBlockOf(n), PutInode(d[InodeBlockOf(n)], SlotOf(n), FreshInode))

fs_create(I) ==
  /\ Ready(I)
  /\ Mounted
  /\ calls' = calls + 1
  /\ LET n == FirstFreeInode(disk, meta_data) IN
       IF n = -1
         THEN /\ last' = Call("fs_create", 0, 0, 0, 0, -1, NoOut)
              /\ Frame
         ELSE /\ disk' = CreateDisk(disk, n)
              /\ free_blocks' \in init_bit_map(I, CreateDisk(disk, n), meta_data)
              /\ last' = Call("fs_create", 0, 0, 0, 0, n, NoOut)
              /\ UNCHANGED <<lost, probe, disk_blocks, fs_disk, meta_data>>

\* the pointers fs_remove walks in the indirect block: the run before the first zero
RECURSIVE PointerRun(_, _)
PointerRun(point_block, pt_idx) ==
  IF pt_idx >= POINTERS_PER_BLOCK \/ point_block[pt_idx] = 0
    THEN {}
    ELSE {point_block[pt_idx]} \cup PointerRun(point_block, pt_idx + 1)

\* the bitmap entries fs_remove clears for `inode`
RemoveReleases(d, inode, stale) ==
  ({inode.direct[k] : k \in Directs} \ {0})
  \cup (IF inode.indirect # 0
          THEN {inode.indirect} \cup PointerRun(disk_read(d, inode.indirect, stale), 0)
          ELSE {})

\* fs_remove without its validity test
RemoveUnchecked(d, fb, n, stale) ==
  LET block == disk_read(d, InodeBlockOf(n), stale)
      inode == InodeAt(block, SlotOf(n))
      released == RemoveReleases(d, inode, stale)
  IN [disk |-> disk_write(d, InodeBlockOf(n),
                          PutInode(block, SlotOf(n), [inode EXCEPT !.valid = 0])),
      fb   |-> [b \in DOMAIN fb |-> IF b \in released THEN FALSE ELSE fb[b]],
      ret  |-> 1]

\* fs_remove: the disk, the bitmap and the result
RemoveResult(d, fb, n, stale) ==
  LET block == disk_read(d, InodeBlockOf(n), stale)
      inode == InodeAt(block, SlotOf(n))
      released == RemoveReleases(d, inode, stale)
  IN IF ~is_valid_Inode(inode)
       THEN [disk |-> d, fb |-> fb, ret |-> 0]
       ELSE [disk |-> disk_write(d, InodeBlockOf(n),
                                 PutInode(block, SlotOf(n), [inode EXCEPT !.valid = 0])),
             fb   |-> [b \in DOMAIN fb |-> IF b \in released THEN FALSE ELSE fb[b]],
             ret  |-> 1]

\* the blocks a call on inode n reads before it looks at a data block
InodeReads(d, n) ==
  {InodeBlockOf(n)}
  \cup (IF disk_sanity_check(InodeBlockOf(n))
          THEN {InodeAt(d[InodeBlockOf(n)], SlotOf(n)).indirect}
          ELSE {})

fs_remove(I) ==
  /\ Ready(I)
  /\ Mounted
  /\ calls' = calls + 1
  /\ \E n \in InodeArgs(I) : \E stale \in Stale(I, InodeReads(disk, n)) :
       LET r == RemoveResult(disk, free_blocks, n, stale) IN
         /\ disk' = r.disk
         /\ free_blocks' = r.fb
         /\ last' = Call("fs_remove", n, 0, 0, 0, r.ret, NoOut)
  /\ UNCHANGED <<lost, probe, disk_blocks, fs_disk, meta_data>>

\* fs_stat's result
StatResult(d, n, stale) ==
  LET inode == InodeAt(disk_read(d, 1 + n \div INODES_PER_BLOCK, stale), SlotOf(n))
  IN IF is_valid_Inode(inode) THEN inode.size ELSE -1

fs_stat(I) ==
  /\ Ready(I)
  /\ Mounted
  /\ \E n \in InodeArgs(I) : \E stale \in Stale(I, {InodeBlockOf(n)}) :
       last' = Call("fs_stat", n, 0, 0, 0, StatResult(disk, n, stale), NoOut)
  /\ UNCHANGED calls
  /\ Frame

(***************************************************************************)
(* read, write                                                             *)
(***************************************************************************)
\* the data block fs_read picks for offset
ReadBlockIdx(d, inode, offset, stale) ==
  LET pt_idx == offset \div BLOCK_SIZE IN
    IF pt_idx < POINTERS_PER_INODE
      THEN inode.direct[pt_idx]
      ELSE disk_read(d, inode.indirect, stale)
             [(pt_idx - POINTERS_PER_INODE) % POINTERS_PER_BLOCK]

\* fs_read: the result, the caller's buffer and the data block read
ReadResult(d, n, length, offset, stale) ==
  LET inode == InodeAt(disk_read(d, InodeBlockOf(n), stale), SlotOf(n))
      size == inode.size
      block_idx == ReadBlockIdx(d, inode, offset, stale)
      buf == disk_read(d, block_idx, stale)
  IN IF ~is_valid_Inode(inode) \/ offset >= size
       THEN [ret |-> -1, out |-> NoOut, block_idx |-> -1]
       ELSE [ret |-> IF offset + length <= size THEN length ELSE size - offset,
             out |-> [c \in Cells |->
                        IF c < Min(size - offset, BLOCK_SIZE) THEN buf[c] ELSE -1],
             block_idx |-> block_idx]

\* the blocks fs_read reads
ReadReads(d, n, offset) ==
  InodeReads(d, n)
  \cup (IF \A b \in InodeReads(d, n) : disk_sanity_check(b)
          THEN {ReadBlockIdx(d, InodeAt(d[InodeBlockOf(n)], SlotOf(n)), offset, ZeroBlock)}
          ELSE {})

fs_read(I) ==
  /\ Ready(I)
  /\ Mounted
  /\ \E n \in InodeArgs(I), length \in I.lens, offset \in Offsets(I) :
       \E stale \in Stale(I, ReadReads(disk, n, offset)) :
         LET r == ReadResult(disk, n, length, offset, stale) IN
           last' = Call("fs_read", n, offset, length, 0, r.ret, r.out)
  /\ UNCHANGED calls
  /\ Frame

\* the first zero slot of an indirect block, POINTERS_PER_BLOCK when it has none
FirstZeroSlot(point_block) ==
  LET zero == {i \in Cells : point_block[i] = 0}
  IN IF zero = {} THEN POINTERS_PER_BLOCK ELSE CHOOSE i \in zero : \A h \in zero : i <= h

\* the disk after assign_block handed out block i: the block is cleaned
AssignDisk(d, i) == disk_write(d, i, ZeroBlock)

\* uint32_t pt_idx = offset / BLOCK_SIZE
WritePtIdx(offset) == (offset \div BLOCK_SIZE) % U32_MOD

\* inode.size += length
GrowSize(size, length) == (size + length) % U32_MOD

\* fs_write: the disk, the bitmap and the result
WriteResult(d, fb, n, data, length, offset, stale) ==
  LET block == disk_read(d, InodeBlockOf(n), stale)
      inode == InodeAt(block, SlotOf(n))
      pt_idx == WritePtIdx(offset)
      bk_idx == assign_block(fb)
      fb1 == SetBit(fb, bk_idx, TRUE)
      d1 == disk_write(AssignDisk(d, bk_idx), bk_idx, data)
      fresh == inode.indirect = 0
      indir == IF fresh THEN assign_block(fb1) ELSE inode.indirect
      fb2 == IF fresh THEN SetBit(fb1, indir, TRUE) ELSE fb1
      d2 == IF fresh THEN AssignDisk(d1, indir) ELSE d1
      point_block == disk_read(d2, indir, stale)
      i == FirstZeroSlot(point_block)
      d3 == disk_write(d2, indir, [point_block EXCEPT ![i] = bk_idx])
      done(dd, ff, ino) ==
        [disk |-> disk_write(dd, InodeBlockOf(n),
                             PutInode(block, SlotOf(n),
                                      [ino EXCEPT !.size = GrowSize(inode.size, length)])),
         fb |-> ff, ret |-> length]
  IN IF ~is_valid_Inode(inode) THEN [disk |-> d, fb |-> fb, ret |-> -1]
     ELSE IF pt_idx >= POINTERS_PER_INODE + POINTERS_PER_BLOCK
       THEN [disk |-> d, fb |-> fb, ret |-> -1]
     ELSE IF bk_idx = -1 THEN [disk |-> d, fb |-> fb, ret |-> -1]
     ELSE IF pt_idx < POINTERS_PER_INODE
       THEN done(d1, fb1, [inode EXCEPT !.direct[pt_idx] = bk_idx])
     ELSE IF fresh /\ indir = -1
       THEN [disk |-> d1, fb |-> unassign_block(fb1, bk_idx), ret |-> -1]
     ELSE IF i >= POINTERS_PER_BLOCK
       THEN [disk |-> d2, fb |-> fb2, ret |-> -1]
     ELSE done(d3, fb2, [inode EXCEPT !.indirect = indir])

fs_write(I) ==
  /\ Ready(I)
  /\ Mounted
  /\ calls' = calls + 1
  /\ \E n \in InodeArgs(I), v \in I.vals, length \in I.lens, offset \in Offsets(I) :
       \E stale \in Stale(I, InodeReads(disk, n)),
          tail \in (IF length < BLOCK_SIZE THEN I.tails ELSE {0}) :
         LET r == WriteResult(disk, free_blocks, n, CallerMemory(v, length, tail),
                              length, offset, stale) IN
           /\ disk' = r.disk
           /\ free_blocks' = r.fb
           /\ last' = Call("fs_write", n, offset, length, v, r.ret, NoOut)
  /\ UNCHANGED <<lost, probe, disk_blocks, fs_disk, meta_data>>

(***************************************************************************)
(* The disk emulator called directly.  probe is a Disk of its own, never   *)
(* handed to the FileSystem: disk points at the structure or is NULL, fd   *)
(* is the descriptor (-1 when closed), file is the backing file.           *)
(***************************************************************************)
DISK_FAILURE == -1
NoProbe == [disk |-> "NULL", fd |-> -1, blocks |-> 0, reads |-> 0, writes |-> 0,
            file |-> << >>]

\* a disk call: block, data (1 a buffer, 0 NULL), io (1 when the positional
\* read or write succeeds), the return value, the buffer afterwards
DiskCall(op, block, data, io, ret, out) == Call(op, block, io, 0, data, ret, out)

\* disk_sanity_check with all four tests
DiskSanity(p, block, data) ==
  /\ p.disk # "NULL"
  /\ p.fd # -1
  /\ block < p.blocks
  /\ data # 0

\* disk_read: the Disk, the return value and the buffer after the call
DiskRead(p, block, data, io) ==
  IF ~DiskSanity(p, block, data) THEN [probe |-> p, ret |-> DISK_FAILURE, out |-> NoOut]
  ELSE IF io = 0 THEN [probe |-> p, ret |-> DISK_FAILURE, out |-> NoOut]
  ELSE [probe |-> [p EXCEPT !.reads = @ + 1], ret |-> 0, out |-> p.file[block]]

\* disk_write: the Disk and the return value after the call
DiskWrite(p, block, data, buf, io) ==
  IF ~DiskSanity(p, block, data) THEN [probe |-> p, ret |-> DISK_FAILURE]
  ELSE IF io = 0 THEN [probe |-> p, ret |-> DISK_FAILURE]
  ELSE [probe |-> [p EXCEPT !.writes = @ + 1, !.file[block] = buf], ret |-> BLOCK_SIZE]

ProbeBlocks == 0 .. MaxProbeBlocks

disk_read_call ==
  /\ probe.reads < MaxDiskCalls
  /\ \E block \in ProbeBlocks, data \in {0, 1}, io \in {0, 1} :
       LET r == DiskRead(probe, block, data, io) IN
         /\ probe' = r.probe
         /\ last' = DiskCall("disk_read", block, data, io, r.ret, r.out)
  /\ UNCHANGED calls
  /\ Frame0

disk_write_call ==
  /\ probe.writes < MaxDiskCalls
  /\ \E block \in ProbeBlocks, data \in {0, 1}, io \in {0, 1}, buf \in HeapBlocks :
       LET r == DiskWrite(probe, block, data, buf, io) IN
         /\ probe' = r.probe
         /\ last' = DiskCall("disk_write", block, data, io, r.ret, NoOut)
  /\ UNCHANGED calls
  /\ Frame0

(***************************************************************************)
(* The program                                                             *)
(***************************************************************************)
\* disk_open on a new file of 1 or DISK_BLOCKS blocks: every block zero;
\* the FileSystem starts unmounted
Init ==
  /\ disk_blocks \in {1, DISK_BLOCKS}
  /\ disk = [b \in 0 .. (disk_blocks - 1) |-> ZeroBlock]
  /\ fs_disk = "NULL"
  /\ meta_data = NoMeta
  /\ free_blocks = NullMap
  /\ last = Call("disk_open", 0, 0, 0, 0, 0, NoOut)
  /\ calls = 0
  /\ probe = NoProbe
  /\ lost = 0

Next ==
  \/ fs_format(Wide)
  \/ fs_mount(Wide)
  \/ fs_unmount(Wide)
  \/ fs_create(Wide)
  \/ fs_remove(Wide)
  \/ fs_stat(Wide)
  \/ fs_read(Wide)
  \/ fs_write(Wide)

Spec == Init /\ [][Next]_vars

\* The same calls in a build where every fresh heap and stack buffer happens to
\* hold zeros and every inode number passed is one of the table: what the
\* code does without any help from uninitialised memory or stray arguments.
Zeroed ==
  [past |-> 0, vals |-> {1}, lens |-> {1, BLOCK_SIZE}, tails |-> {0, 1},
   idxs |-> BlockIndices,
   heap |-> {ZeroBlock}, stray |-> 0, calls |-> MaxZeroedCalls]

NextZeroed ==
  \/ fs_format(Zeroed)
  \/ fs_mount(Zeroed)
  \/ fs_unmount(Zeroed)
  \/ fs_create(Zeroed)
  \/ fs_remove(Zeroed)
  \/ fs_stat(Zeroed)
  \/ fs_read(Zeroed)
  \/ fs_write(Zeroed)

SpecZeroed == Init /\ [][NextZeroed]_vars

\* A volume that is formatted and mounted once and then only sees fs_create,
\* fs_remove and whole-block fs_write at offset 0, in the zeroed-memory build:
\* long runs of writes to one offset.
Grow ==
  [past |-> 0, vals |-> {1}, lens |-> {BLOCK_SIZE}, tails |-> {0}, idxs |-> {0},
   heap |-> {ZeroBlock}, stray |-> 0, calls |-> MaxGrowCalls]

NextGrow ==
  \/ fs_format(Grow)
  \/ fs_mount(Grow)
  \/ fs_create(Grow)
  \/ fs_remove(Grow)
  \/ fs_write(Grow)

SpecGrow == Init /\ [][NextGrow]_vars

\* A larger volume in the zeroed-memory build on which files are only written
\* past their direct pointers, one byte at a time: an indirect block fills up.
Fill ==
  [past |-> 0, vals |-> {1}, lens |-> {1}, tails |-> {0}, idxs |-> {POINTERS_PER_INODE},
   heap |-> {ZeroBlock}, stray |-> 0, calls |-> MaxFillCalls]

InitFill ==
  /\ disk_blocks = FILL_DISK_BLOCKS
  /\ disk = [b \in 0 .. (disk_blocks - 1) |-> ZeroBlock]
  /\ fs_disk = "NULL"
  /\ meta_data = NoMeta
  /\ free_blocks = NullMap
  /\ last = Call("disk_open", 0, 0, 0, 0, 0, NoOut)
  /\ calls = 0
  /\ probe = NoProbe
  /\ lost = 0

NextFill ==
  \/ fs_format(Fill)
  \/ fs_mount(Fill)
  \/ fs_create(Fill)
  \/ fs_write(Fill)

SpecFill == InitFill /\ [][NextFill]_vars

\* The zeroed-memory build with callers that also pass the first inode number
\* past the table.
Past == [Zeroed EXCEPT !.past = 1, !.calls = MaxPastCalls]

NextPast ==
  \/ fs_format(Past)
  \/ fs_mount(Past)
  \/ fs_unmount(Past)
  \/ fs_create(Past)
  \/ fs_remove(Past)
  \/ fs_stat(Past)
  \/ fs_read(Past)
  \/ fs_write(Past)

SpecPast == Init /\ [][NextPast]_vars

\* The disk emulator alone: a Disk in any of the conditions the sanity check
\* tells apart (NULL, closed descriptor, 1..MaxProbeBlocks blocks), freshly
\* opened, then read and written directly.
ProbeDisks ==
  {NoProbe} \cup
  {[disk |-> "disk", fd |-> fd, blocks |-> n, reads |-> 0, writes |-> 0,
    file |-> [b \in 0 .. (n - 1) |-> ZeroBlock]] :
     fd \in {-1, 3}, n \in 1 .. MaxProbeBlocks}

InitDisk ==
  /\ disk_blocks = 1
  /\ disk = [b \in 0 .. (disk_blocks - 1) |-> ZeroBlock]
  /\ fs_disk = "NULL"
  /\ meta_data = NoMeta
  /\ free_blocks = NullMap
  /\ last = Call("disk_open", 0, 0, 0, 0, 0, NoOut)
  /\ calls = 0
  /\ probe \in ProbeDisks
  /\ lost = 0

NextDisk ==
  \/ disk_read_call
  \/ disk_write_call

SpecDisk == InitDisk /\ [][NextDisk]_vars

(***************************************************************************)
(* Vocabulary of the properties                                            *)
(***************************************************************************)
\* inode n as stored in the inode table
InodeOf(d, n) == InodeAt(d[InodeBlockOf(n)], SlotOf(n))
TableInodes == 0 .. (meta_data.inodes - 1)
ValidInodes(d) == {n \in TableInodes : is_valid_Inode(InodeOf(d, n))}

\* the nonzero entries of the indirect block of `inode`
IndirectEntries(d, inode) ==
  IF inode.indirect # 0 /\ disk_sanity_check(inode.indirect)
    THEN {d[inode.indirect][c] : c \in Cells} \ {0}
    ELSE {}

\* every block `inode` references: nonzero direct pointers, the indirect
\* block, the nonzero entries of the indirect block
RefsOf(d, inode) ==
  ({inode.direct[k] : k \in Directs} \ {0})
  \cup (IF inode.indirect # 0 THEN {inode.indirect} ELSE {})
  \cup IndirectEntries(d, inode)

\* the blocks in use: superblock, inode table, blocks of valid inodes
InUse(d) ==
  {0} \cup (1 .. meta_data.inode_blocks)
  \cup UNION {RefsOf(d, InodeOf(d, n)) : n \in ValidInodes(d)}

BitmapExact(d, fb) ==
  /\ DOMAIN fb = 0 .. (meta_data.blocks - 1)
  /\ \A b \in DOMAIN fb : fb[b] <=> b \in InUse(d)

\* the step is a call of the state-changing operation op
Called(op) == last'.op = op /\ calls' = calls + 1
Did(op) == last.op = op

(***************************************************************************)
(* C1.  While mounted, after every completed fs_create, fs_remove,         *)
(* fs_write, fs_read or fs_stat, free_blocks[i] is true exactly when block *)
(* i is the superblock, an inode-table block, or a data or indirect block  *)
(* of some valid inode.                                                    *)
(***************************************************************************)
C1_BitmapExactAfterEveryCall ==
  (Mounted /\ last.op \in {"fs_create", "fs_remove", "fs_write", "fs_read", "fs_stat"})
    => BitmapExact(disk, free_blocks)

(***************************************************************************)
(* C2.  Right after a successful fs_mount of a well-formed volume (here: a *)
(* cleanly formatted one, every block after the superblock zero),          *)
(* free_blocks has meta_data.blocks entries, true exactly for the blocks   *)
(* in use; every entry the traversal did not set is false.                 *)
(***************************************************************************)
CleanVolume(d) == SuperOk(SuperOf(d[0])) /\ \A b \in 1 .. (disk_blocks - 1) : d[b] = ZeroBlock

C2_MountBitmapExact ==
  (Did("fs_mount") /\ last.ret = 1 /\ CleanVolume(disk))
    => BitmapExact(disk, free_blocks)

(***************************************************************************)
(* C3.  In a mounted state reached by fs_create, fs_remove and fs_write,   *)
(* fs_unmount followed by fs_mount succeeds and rebuilds exactly the       *)
(* bitmap held before the unmount.  fs_unmount only drops the bitmap and   *)
(* fs_mount rebuilds it from the disk with init_bit_map, so the rebuilt    *)
(* bitmap is init_bit_map of the current disk; it is compared here in the  *)
(* build whose fresh buffers hold zeros.                                   *)
(***************************************************************************)
C3_RemountSameBitmap ==
  (Mounted /\ last.op \in {"fs_create", "fs_remove", "fs_write"})
    => /\ SuperOk(SuperOf(disk[0]))
       /\ init_bit_map_ok(SuperOf(disk[0]))
       /\ init_bit_map(Zeroed, disk, SuperOf(disk[0])) = {free_blocks}

(***************************************************************************)
(* C4.  After a successful fs_write(n, buf, L, k * BLOCK_SIZE) on a valid  *)
(* inode, with 0 <= k < POINTERS_PER_INODE + POINTERS_PER_BLOCK and        *)
(* 1 <= L <= BLOCK_SIZE, fs_read(n, out, L, k * BLOCK_SIZE) returns L and  *)
(* out[0..L] = buf[0..L].                                                  *)
(***************************************************************************)
C4_WriteThenRead ==
  (/\ Did("fs_write") /\ last.ret >= 0 /\ last.n \in TableInodes
   /\ last.off \div BLOCK_SIZE < POINTERS_PER_INODE + POINTERS_PER_BLOCK)
    => \A stale \in HeapBlocks :
         LET r == ReadResult(disk, last.n, last.len, last.off, stale) IN
           /\ r.ret = last.len
           /\ \A c \in 0 .. (last.len - 1) : r.out[c] = Payload(last.val)[c]

(***************************************************************************)
(* C5.  A successful fs_format of an N-block disk leaves block 0 a         *)
(* superblock {MAGIC_NUMBER, N, ceil(N/10), ceil(N/10) * INODES_PER_BLOCK},*)
(* every block of [1, N) zero, and a disk that fs_mount accepts.           *)
(***************************************************************************)
C5_FormatClean ==
  (Did("fs_format") /\ last.ret = 1)
    => /\ SuperOf(disk[0]) =
            [magic_number |-> MAGIC_NUMBER, blocks |-> disk_blocks,
             inode_blocks |-> CeilDiv10(disk_blocks),
             inodes |-> CeilDiv10(disk_blocks) * INODES_PER_BLOCK]
       /\ \A b \in 1 .. (disk_blocks - 1) : disk[b] = ZeroBlock
       /\ SuperOk(SuperOf(disk[0])) /\ init_bit_map_ok(SuperOf(disk[0]))

(***************************************************************************)
(* C6.  fs_mount returns true only on a FileSystem not yet mounted on the  *)
(* disk whose block 0 passes the four superblock checks; when it returns   *)
(* false on an unmounted FileSystem, the FileSystem is still unmounted     *)
(* (fs.disk unset, no bitmap held) and the disk is unchanged.              *)
(***************************************************************************)
C6_MountOnlyIfValidElseUntouched ==
  [][Called("fs_mount") =>
       /\ last'.ret = 1 => (~Mounted /\ SuperOk(SuperOf(disk[0])))
       /\ (last'.ret = 0 /\ ~Mounted /\ free_blocks = NullMap)
            => (fs_disk' = "NULL" /\ free_blocks' = NullMap /\ disk' = disk)]_vars

(***************************************************************************)
(* C7.  On a mounted FileSystem fs_create returns the smallest inode       *)
(* number whose inode is not valid, and -1 exactly when every inode of the *)
(* table is valid; when it returns -1 the disk and the bitmap are          *)
(* unchanged.                                                              *)
(***************************************************************************)
C7_CreateReturnsSmallestFree ==
  [][Called("fs_create") =>
       /\ last'.ret >= 0 =>
            /\ last'.ret \in TableInodes
            /\ ~is_valid_Inode(InodeOf(disk, last'.ret))
            /\ \A m \in 0 .. (last'.ret - 1) : is_valid_Inode(InodeOf(disk, m))
       /\ last'.ret = -1 <=> ValidInodes(disk) = TableInodes
       /\ last'.ret >= -1
       /\ last'.ret = -1 => (disk' = disk /\ free_blocks' = free_blocks)]_vars

\* fs_create handed inode 0 out again while inode 1 is in use
C7_Witness ==
  /\ Did("fs_create") /\ last.ret = 0
  /\ 1 \in ValidInodes(disk)
  /\ calls >= 4

(***************************************************************************)
(* C8.  Whenever fs_create returns n >= 0, inode n is valid with size 0,   *)
(* every direct pointer 0 and indirect 0, whatever the slot held before,   *)
(* and fs_stat(n) then returns 0.                                          *)
(***************************************************************************)
C8_CreatedInodeIsEmpty ==
  (Did("fs_create") /\ last.ret >= 0)
    => /\ InodeOf(disk, last.ret) = FreshInode
       /\ \A stale \in HeapBlocks : StatResult(disk, last.ret, stale) = 0

\* inode 0 was handed out on a volume whose format left every word 1: the
\* slot held size 1 and pointers 1, as inode 1 and the data blocks still do
C8_Witness ==
  /\ Did("fs_create") /\ last.ret = 0
  /\ InodeOf(disk, 1) = [valid |-> 1, size |-> 1, direct |-> [k \in Directs |-> 1],
                         indirect |-> 1]
  /\ disk[disk_blocks - 1] = Payload(1)

(***************************************************************************)
(* C9.  After fs_remove(n) returns true, fs_stat(n) returns -1 and every   *)
(* block inode n referenced before the call (nonzero direct pointers, the  *)
(* indirect block, every nonzero entry of the indirect block) is false in  *)
(* free_blocks.                                                            *)
(***************************************************************************)
C9_RemoveReleasesEveryBlock ==
  [][(Called("fs_remove") /\ last'.ret = 1 /\ last'.n \in TableInodes) =>
       /\ \A stale \in HeapBlocks : StatResult(disk', last'.n, stale) = -1
       /\ \A b \in RefsOf(disk, InodeOf(disk, last'.n)) \cap DOMAIN free_blocks :
            ~free_blocks'[b]]_vars

(***************************************************************************)
(* C10.  For a valid inode and an offset with offset / BLOCK_SIZE >=       *)
(* POINTERS_PER_INODE + POINTERS_PER_BLOCK, fs_write returns -1 and        *)
(* changes neither the disk nor the bitmap.                                *)
(***************************************************************************)
C10_WritePastMaxFails ==
  [][(/\ Called("fs_write") /\ last'.n \in ValidInodes(disk)
      /\ last'.off \div BLOCK_SIZE >= POINTERS_PER_INODE + POINTERS_PER_BLOCK)
       => (last'.ret = -1 /\ disk' = disk /\ free_blocks' = free_blocks)]_vars

(***************************************************************************)
(* C11.  For a valid inode and offset < size, the non-negative count       *)
(* fs_read returns is the number of bytes it copied into the caller's      *)
(* buffer, and it copies no more than `length` bytes.                      *)
(***************************************************************************)
\* the bytes of the caller's buffer fs_read stored to
Copied(out) == {c \in Cells : out[c] # -1}

C11_ReadCountIsWhatWasCopied ==
  (Did("fs_read") /\ last.ret >= 0 /\ last.n \in TableInodes)
    => /\ Cardinality(Copied(last.out)) = last.ret
       /\ Cardinality(Copied(last.out)) <= last.len

(***************************************************************************)
(* C12.  fs_format called while the FileSystem has the disk mounted        *)
(* returns false and writes nothing: the disk, the bitmap, the metadata    *)
(* and the mount state are unchanged.                                      *)
(***************************************************************************)
C12_FormatWhileMountedRefused ==
  [][(Called("fs_format") /\ Mounted) =>
       /\ last'.ret = 0
       /\ disk' = disk /\ free_blocks' = free_blocks
       /\ meta_data' = meta_data /\ fs_disk' = fs_disk]_vars

\* a refused format of a volume that holds a file
C12_Witness ==
  /\ Did("fs_format") /\ last.ret = 0 /\ Mounted
  /\ \E n \in ValidInodes(disk) : InodeOf(disk, n).size > 0

(***************************************************************************)
(* C13.  A disk_read that passes the sanity checks and whose positional    *)
(* read succeeds returns BLOCK_SIZE, as disk_write does, and adds exactly  *)
(* one to disk.reads; a disk_read or disk_write that fails a sanity check  *)
(* returns DISK_FAILURE and leaves both counters and the file unchanged.   *)
(***************************************************************************)
DiskCalled(op) == last'.op = op /\ <<last, probe>>' # <<last, probe>>

C13_DiskReadReturnsBlockSize ==
  [][/\ (DiskCalled("disk_read") /\ DiskSanity(probe, last'.n, last'.val) /\ last'.off = 1)
         => (last'.ret = BLOCK_SIZE /\ probe'.reads = probe.reads + 1)
     /\ ((DiskCalled("disk_read") \/ DiskCalled("disk_write"))
           /\ ~DiskSanity(probe, last'.n, last'.val))
         => (last'.ret = DISK_FAILURE /\ probe' = probe)]_vars

(***************************************************************************)
(* C14.  In every state reached from a formatted and mounted volume by     *)
(* fs_create, fs_remove, fs_write, unmount and re-mount, no block index    *)
(* appears more than once among the direct pointers, indirect-block        *)
(* indices and indirect-block entries of all valid inodes.                 *)
(***************************************************************************)
\* the places a valid inode references a block from: <<n, "direct", k>>,
\* <<n, "indirect", 0>>, <<n, "entry", c>>, each with the block it names
RefSites(d) ==
  UNION {
    LET inode == InodeOf(d, n) IN
      {<<n, "direct", k, inode.direct[k]>> : k \in Directs}
      \cup {<<n, "indirect", 0, inode.indirect>>}
      \cup (IF inode.indirect # 0 /\ disk_sanity_check(inode.indirect)
              THEN {<<n, "entry", c, d[inode.indirect][c]>> : c \in Cells}
              ELSE {})
    : n \in ValidInodes(d)}

NoSharedBlock(d) ==
  \A s, t \in RefSites(d) : (s[4] # 0 /\ s[4] = t[4]) => s = t

C14_NoBlockReferencedTwice ==
  (Mounted /\ last.op \in {"fs_mount", "fs_create", "fs_remove", "fs_write"})
    => NoSharedBlock(disk)

(***************************************************************************)
(* C15.  In every state reached from a formatted and mounted volume by     *)
(* fs_create, fs_remove and fs_write, every nonzero direct pointer,        *)
(* indirect-block index and indirect-block entry of every valid inode      *)
(* lies in [1 + inode_blocks, blocks).                                     *)
(***************************************************************************)
DataBlocks == (1 + meta_data.inode_blocks) .. (meta_data.blocks - 1)

C15_PointersAreDataBlocks ==
  (Mounted /\ last.op \in {"fs_mount", "fs_create", "fs_remove", "fs_write"})
    => \A s \in RefSites(disk) : s[4] # 0 => s[4] \in DataBlocks

(***************************************************************************)
(* C16.  In every state reached by fs_create, fs_remove and fs_write,      *)
(* repeated writes to one offset included, every valid inode has           *)
(* size <= (POINTERS_PER_INODE + POINTERS_PER_BLOCK) * BLOCK_SIZE.         *)
(***************************************************************************)
MaxFileSize == (POINTERS_PER_INODE + POINTERS_PER_BLOCK) * BLOCK_SIZE

C16_SizeWithinMaximum ==
  (Mounted /\ last.op \in {"fs_create", "fs_remove", "fs_write"})
    => \A n \in ValidInodes(disk) : InodeOf(disk, n).size <= MaxFileSize

(***************************************************************************)
(* C17.  Whenever fs_write returns -1 the bitmap after the call equals the *)
(* bitmap before it (every block allocated during the call was released)   *)
(* and the inode and its indirect block are unchanged on disk.             *)
(***************************************************************************)
\* the indirect block of inode n, if it names a block of the disk
IndirectOf(d, n) ==
  LET b == InodeOf(d, n).indirect IN
    IF b # 0 /\ disk_sanity_check(b) THEN d[b] ELSE ZeroBlock

C17_FailedWriteRollsBack ==
  [][(Called("fs_write") /\ last'.ret = -1 /\ last'.n \in TableInodes) =>
       /\ free_blocks' = free_blocks
       /\ InodeOf(disk', last'.n) = InodeOf(disk, last'.n)
       /\ IndirectOf(disk', last'.n) = IndirectOf(disk, last'.n)]_vars

(***************************************************************************)
(* C18.  After a successful fs_write(n, buf, L, offset) with               *)
(* L < BLOCK_SIZE the newly allocated data block holds buf[0..L] in its    *)
(* first L bytes and zero in every byte from L to BLOCK_SIZE - 1, whatever *)
(* follows the first L bytes in the caller's memory.                       *)
(***************************************************************************)
C18_ShortWriteIsZeroPadded ==
  [][(/\ Called("fs_write") /\ last'.ret >= 0 /\ last'.len < BLOCK_SIZE
      /\ last'.n \in TableInodes) =>
       LET bk_idx == assign_block(free_blocks) IN
         \A c \in Cells :
           disk'[bk_idx][c] = IF c < last'.len THEN last'.val ELSE 0]_vars

(***************************************************************************)
(* C19.  In every state reached by fs_create, fs_remove and fs_write the   *)
(* indirect block of every valid inode with indirect # 0 is densely        *)
(* packed: its nonzero pointers occupy a prefix of the slots and every     *)
(* later slot is zero.                                                     *)
(***************************************************************************)
Dense(b) == \A c \in Cells : b[c] # 0 => \A e \in 0 .. (c - 1) : b[e] # 0

C19_IndirectBlockIsDense ==
  (Mounted /\ last.op \in {"fs_create", "fs_remove", "fs_write"})
    => \A n \in ValidInodes(disk) :
         LET inode == InodeOf(disk, n) IN
           (inode.indirect # 0 /\ disk_sanity_check(inode.indirect))
             => Dense(disk[inode.indirect])

(***************************************************************************)
(* C20.  On a mounted FileSystem, for every inode number n < inodes whose  *)
(* inode is not valid, fs_remove(n) returns false and fs_stat(n),          *)
(* fs_read(n, ...) and fs_write(n, ...) return -1, and none of these calls *)
(* changes a disk block or an entry of free_blocks; fs_read on a valid     *)
(* inode with offset >= size returns -1 with no state change either.       *)
(***************************************************************************)
\* the step is a call of the query op
Queried(op) == last'.op = op /\ last.op # op /\ calls' = calls

\* the step is a call of op on an inode of the table that is not valid
OnInvalidInode(op) ==
  /\ Mounted
  /\ IF op \in Query THEN Queried(op) ELSE Called(op)
  /\ last'.n \in TableInodes
  /\ ~is_valid_Inode(InodeOf(disk, last'.n))

StateKept == disk' = disk /\ free_blocks' = free_blocks

C20_InvalidInodeRefused ==
  [][/\ OnInvalidInode("fs_remove") => (last'.ret = 0 /\ StateKept)
     /\ \A op \in {"fs_stat", "fs_read", "fs_write"} :
          OnInvalidInode(op) => (last'.ret = -1 /\ StateKept)
     /\ (/\ Mounted /\ Queried("fs_read") /\ last'.n \in TableInodes
         /\ is_valid_Inode(InodeOf(disk, last'.n))
         /\ last'.off >= InodeOf(disk, last'.n).size)
          => (last'.ret = -1 /\ last'.out = NoOut /\ StateKept)]_vars

\* fs_remove has just refused an invalid inode of the table while another
\* inode holds data
C20_Witness ==
  /\ Mounted /\ Did("fs_remove") /\ last.ret = 0
  /\ last.n \in TableInodes
  /\ ~is_valid_Inode(InodeOf(disk, last.n))
  /\ \E m \in ValidInodes(disk) : InodeOf(disk, m).size > 0

(***************************************************************************)
(* C21.  Every operation releases each transient buffer it allocated       *)
(* before it returns, on every exit path, and a bitmap that is replaced is *)
(* released: no call leaves an allocation behind that neither the caller   *)
(* nor the FileSystem can reach.                                           *)
(***************************************************************************)
C21_NoAllocationLost == lost = 0

(***************************************************************************)
(* C22.  fs_read and fs_stat change no disk block and no bitmap entry; a   *)
(* successful fs_write or fs_remove on inode n changes neither the valid   *)
(* flag, size, pointers, indirect block nor data blocks of any other valid *)
(* inode m # n; fs_write never changes the valid flag of inode n itself.   *)
(***************************************************************************)
\* inode m and every block it references are the same before and after
InodeKept(m) ==
  /\ InodeOf(disk', m) = InodeOf(disk, m)
  /\ \A b \in RefsOf(disk, InodeOf(disk, m)) :
       disk_sanity_check(b) => disk'[b] = disk[b]

\* the step is a successful fs_write or fs_remove on an inode of the table
Succeeded(op) ==
  /\ Mounted /\ Called(op) /\ last'.n \in TableInodes
  /\ IF op = "fs_remove" THEN last'.ret = 1 ELSE last'.ret >= 0

C22_OtherInodesUntouched ==
  [][/\ \A op \in Query : Queried(op) => StateKept
     /\ \A op \in {"fs_write", "fs_remove"} :
          Succeeded(op) => \A m \in ValidInodes(disk) \ {last'.n} : InodeKept(m)
     /\ (Mounted /\ Called("fs_write") /\ last'.n \in TableInodes)
          => InodeOf(disk', last'.n).valid = InodeOf(disk, last'.n).valid]_vars

(***************************************************************************)
(* C23.  A fs_read that returns a non-negative count fills the caller's    *)
(* buffer only with bytes of a data block referenced by that inode: it     *)
(* never reads through a zero direct pointer, a zero indirect-block index  *)
(* or a zero indirect entry, so it never returns the contents of block 0,  *)
(* of an inode-table block or of another inode's block.                    *)
(***************************************************************************)
\* the data blocks `inode` references: nonzero direct pointers and nonzero
\* entries of its indirect block
DataRefsOf(d, inode) ==
  ({inode.direct[k] : k \in Directs} \ {0}) \cup IndirectEntries(d, inode)

C23_ReadOnlyOwnData ==
  (Mounted /\ Did("fs_read") /\ last.ret >= 0 /\ last.n \in TableInodes) =>
    LET inode == InodeOf(disk, last.n)
        block_idx == ReadBlockIdx(disk, inode, last.off, ZeroBlock)
    IN /\ block_idx \in DataRefsOf(disk, inode)
       /\ block_idx \in DataBlocks
       /\ \A c \in Copied(last.out) : last.out[c] = disk[block_idx][c]

(***************************************************************************)
(* C24.  For every inode number n >= meta_data.inodes, fs_stat, fs_read    *)
(* and fs_write return -1 and fs_remove returns false, and none of them    *)
(* interprets or modifies a block outside the inode table as an inode      *)
(* block, whatever file data the data blocks contain.                      *)
(***************************************************************************)
\* the step is a call of op with an inode number past the table
PastTheTable(op) ==
  /\ Mounted
  /\ IF op \in Query THEN Queried(op) ELSE Called(op)
  /\ last'.n >= meta_data.inodes

C24_PastTheTableRefused ==
  [][/\ PastTheTable("fs_remove") => (last'.ret = 0 /\ StateKept)
     /\ \A op \in {"fs_stat", "fs_read", "fs_write"} :
          PastTheTable(op) => (last'.ret = -1 /\ StateKept)]_vars

=============================================================================
